---------------------------- MODULE Spec2Model ----------------------------
(***************************************************************************)
(* Model of backend/api/pdf_processor.py (PDFProcessor) and                *)
(* backend/api/views.py (ProcessPDFView) of adiletexe/innovatex.           *)
(*                                                                         *)
(* Coordinates are float32 values (the columns of the torch tensor         *)
(* Boxes.data).  A coordinate is held as an integer number of units of     *)
(* 2^-FracBits pixel; every arithmetic result is rounded to the 24-bit     *)
(* significand of float32 (round to nearest, ties to even) by RoundF32.    *)
(***************************************************************************)
EXTENDS Integers, Sequences, FiniteSets, TLC

(***************************************************************************)
(* Bounds of the model.                                                    *)
(***************************************************************************)
MaxPages == 2
MaxRequests == 2
FracBits == 14

(***************************************************************************)
(* Program constants.                                                      *)
(***************************************************************************)
MantissaBits == 24
QR_CLASS == 2
CornerPercent == 10

Unit == 2^FracBits

Abs(n) == IF n < 0 THEN -n ELSE n

Range(s) == {s[i] : i \in 1..Len(s)}

(***************************************************************************)
(* float32 rounding of the exact value n (in units): values whose          *)
(* magnitude needs more than MantissaBits bits lose their low bits.        *)
(***************************************************************************)
RoundF32(n) ==
    LET a   == Abs(n)
        lim == 2^MantissaBits
    IN  IF a < lim THEN n
        ELSE LET s    == CHOOSE k \in 1..7 :
                            /\ a \div (2^k) < lim
                            /\ a \div (2^(k-1)) >= lim
                 q    == a \div (2^s)
                 r    == a % (2^s)
                 half == 2^(s-1)
                 up   == r > half \/ (r = half /\ q % 2 = 1)
                 m    == (IF up THEN q + 1 ELSE q) * (2^s)
             IN  IF n < 0 THEN -m ELSE m

\* data[:, k] += offset on a float32 tensor, offset a Python int (pixels)
FAdd(x, offset) == RoundF32(x + offset * Unit)

(***************************************************************************)
(* The YOLO result object results[0]: boxes is None or a Boxes object      *)
(* whose data tensor has one row [x1, y1, x2, y2, conf, cls] per           *)
(* detection.                                                              *)
(***************************************************************************)
Row(x1, y1, x2, y2, conf, cls) ==
    [x1 |-> x1, y1 |-> y1, x2 |-> x2, y2 |-> y2, conf |-> conf, cls |-> cls]

NoneBoxes == [none |-> TRUE, data |-> <<>>]
Boxes(data) == [none |-> FALSE, data |-> data]
Result(data) == [boxes |-> Boxes(data)]

\* `results[0].boxes is None or len(results[0].boxes) == 0`
IsEmpty(results) == results.boxes.none \/ Len(results.boxes.data) = 0

\* the detections a result holds, in order
Dets(results) == IF results.boxes.none THEN <<>> ELSE results.boxes.data

AdjustTopLeftOnly(results, x_offset, y_offset) ==
    IF IsEmpty(results) THEN results
    ELSE [results EXCEPT !.boxes = Boxes(
            [i \in 1..Len(results.boxes.data) |->
                [results.boxes.data[i] EXCEPT
                    !.x1 = FAdd(@, x_offset),
                    !.y1 = FAdd(@, y_offset)]])]

_adjust_detection_coordinates(results, x_offset, y_offset) ==
    IF IsEmpty(results) THEN results
    ELSE [results EXCEPT !.boxes = Boxes(
            [i \in 1..Len(results.boxes.data) |->
                [results.boxes.data[i] EXCEPT
                    !.x1 = FAdd(@, x_offset),
                    !.y1 = FAdd(@, y_offset),
                    !.x2 = FAdd(@, x_offset),
                    !.y2 = FAdd(@, y_offset)]])]

FilterMaskInverted(results, allowed_classes) ==
    IF IsEmpty(results) THEN results
    ELSE LET Keep(row) == row.cls \notin allowed_classes
             kept == SelectSeq(results.boxes.data, Keep)
         IN  IF Len(kept) = 0
             THEN [results EXCEPT !.boxes = NoneBoxes]
             ELSE [results EXCEPT !.boxes = Boxes(kept)]

_filter_detections_by_class(results, allowed_classes) ==
    IF IsEmpty(results) THEN results
    ELSE LET Keep(row) == row.cls \in allowed_classes
             kept == SelectSeq(results.boxes.data, Keep)
         IN  IF Len(kept) = 0
             THEN [results EXCEPT !.boxes = NoneBoxes]
             ELSE [results EXCEPT !.boxes = Boxes(kept)]

MergeSecondFirst(results1, results2) ==
    IF IsEmpty(results1) THEN results2
    ELSE IF IsEmpty(results2) THEN results1
    ELSE [results1 EXCEPT
            !.boxes = Boxes(results2.boxes.data \o results1.boxes.data)]

_merge_detections(results1, results2) ==
    IF IsEmpty(results1) THEN results2
    ELSE IF IsEmpty(results2) THEN results1
    ELSE [results1 EXCEPT
            !.boxes = Boxes(results1.boxes.data \o results2.boxes.data)]

(***************************************************************************)
(* What the caller's argument objects hold once a helper has returned.     *)
(* Each helper assigns results[0].boxes of the list it was given and       *)
(* returns that same list.                                                 *)
(***************************************************************************)
\* line 276: results[0].boxes = new_boxes; line 278: return results
ArgAfterAdjust(results, x_offset, y_offset) ==
    _adjust_detection_coordinates(results, x_offset, y_offset)

\* lines 294 and 305: results[0].boxes = None / new_boxes; line 307
ArgAfterFilter(results, allowed_classes) ==
    _filter_detections_by_class(results, allowed_classes)

\* line 325: results1[0].boxes = new_boxes, reached when neither is empty
Arg1AfterMerge(results1, results2) ==
    IF IsEmpty(results1) \/ IsEmpty(results2) THEN results1
    ELSE _merge_detections(results1, results2)

\* results2 is only read
Arg2AfterMerge(results1, results2) == results2


(***************************************************************************)
(* Images.  A PIL image is described by the page it was rasterized from,   *)
(* its size in pixels, the enhancement stages applied to its pixels, the   *)
(* region of the page it covers and the boxes drawn onto it.               *)
(***************************************************************************)
\* page_to_pil(page, scale=2.0): the pixmap is scale x the page rectangle
page_to_pil(page_number, rect) ==
    [page   |-> page_number,
     width  |-> 2 * rect[1],
     height |-> 2 * rect[2],
     pixels |-> <<>>,
     origin |-> <<0, 0>>,
     drawn  |-> <<>>]

CLAHE == "CLAHE (contrast enhancement)"
DENOISE == "Denoising (bilateral filter - fast)"
THRESHOLD == "Thresholding (binarization)"
SHARPEN == "Sharpening"
UNAVAILABLE == "Preprocessing unavailable (OpenCV not installed)"
ERR_CONVERT == "Error: cv2.error"
ERR_STAGE == "Error during preprocessing: cv2.error"

\* the cv2 calls of preprocess_image, in program order; a fault names the
\* call that raises ("none": no call raises)
Stages == <<"convert", "clahe", "denoise", "threshold", "sharpen", "to_pil">>
StageIndex(st) == CHOOSE i \in 1..Len(Stages) : Stages[i] = st

AppliedSharpenFirst(use_clahe, use_denoise, use_threshold, upto) ==
    LET a1 == IF use_clahe /\ StageIndex("clahe") < upto THEN <<CLAHE>> ELSE <<>>
        a2 == IF use_denoise /\ StageIndex("denoise") < upto THEN <<DENOISE>> ELSE <<>>
        a3 == IF use_threshold /\ StageIndex("threshold") < upto
              THEN <<THRESHOLD>> ELSE <<>>
        a4 == IF StageIndex("sharpen") < upto THEN <<SHARPEN>> ELSE <<>>
    IN  a4 \o a1 \o a2 \o a3

\* the stage names appended to preprocessing_info['applied'] when no call
\* raises before index `upto` (exclusive)
AppliedBefore(use_clahe, use_denoise, use_threshold, upto) ==
    LET a1 == IF use_clahe /\ StageIndex("clahe") < upto THEN <<CLAHE>> ELSE <<>>
        a2 == IF use_denoise /\ StageIndex("denoise") < upto THEN <<DENOISE>> ELSE <<>>
        a3 == IF use_threshold /\ StageIndex("threshold") < upto
              THEN <<THRESHOLD>> ELSE <<>>
        a  == a1 \o a2 \o a3
        a4 == IF Len(a) > 0 /\ StageIndex("sharpen") < upto THEN <<SHARPEN>> ELSE <<>>
    IN  a \o a4

\* the calls that are executed for the given flags, and so can raise
Executed(use_clahe, use_denoise, use_threshold) ==
    {"convert", "to_pil"}
      \cup (IF use_clahe THEN {"clahe"} ELSE {})
      \cup (IF use_denoise THEN {"denoise"} ELSE {})
      \cup (IF use_threshold THEN {"threshold"} ELSE {})
      \cup (IF use_clahe \/ use_denoise \/ use_threshold THEN {"sharpen"} ELSE {})

PreprocessEscalates(has_opencv, image, use_clahe, use_denoise, use_threshold, fault) ==
    IF ~has_opencv
    THEN [raised |-> FALSE, image |-> image, info |-> [applied |-> <<UNAVAILABLE>>]]
    ELSE IF ~(use_clahe \/ use_denoise \/ use_threshold)
    THEN [raised |-> FALSE, image |-> image, info |-> [applied |-> <<>>]]
    ELSE IF fault = "none"
    THEN LET done == AppliedBefore(use_clahe, use_denoise, use_threshold, 7)
         IN  [raised |-> FALSE,
              image  |-> [image EXCEPT !.pixels = done, !.drawn = <<>>],
              info   |-> [applied |-> done]]
    ELSE [raised |-> TRUE, image |-> image, info |-> [applied |-> <<>>]]

PreprocessUnavailableSilent(has_opencv, image, use_clahe, use_denoise, use_threshold, fault) ==
    IF ~has_opencv \/ ~(use_clahe \/ use_denoise \/ use_threshold)
    THEN [raised |-> FALSE, image |-> image, info |-> [applied |-> <<>>]]
    ELSE IF fault = "convert"
    THEN [raised |-> FALSE, image |-> image, info |-> [applied |-> <<ERR_CONVERT>>]]
    ELSE IF fault = "none"
    THEN LET done == AppliedBefore(use_clahe, use_denoise, use_threshold, 7)
         IN  [raised |-> FALSE,
              image  |-> [image EXCEPT !.pixels = done, !.drawn = <<>>],
              info   |-> [applied |-> done]]
    ELSE LET done == AppliedBefore(use_clahe, use_denoise, use_threshold,
                                   StageIndex(fault))
         IN  [raised |-> FALSE,
              image  |-> image,
              info   |-> [applied |-> Append(done, ERR_STAGE)]]

\* preprocess_image: returns (image, preprocessing_info); `raised` tells
\* whether an exception leaves the function
preprocess_image(has_opencv, image, use_clahe, use_denoise, use_threshold, fault) ==
    IF ~has_opencv
    THEN [raised |-> FALSE, image |-> image, info |-> [applied |-> <<UNAVAILABLE>>]]
    ELSE IF ~(use_clahe \/ use_denoise \/ use_threshold)
    THEN [raised |-> FALSE, image |-> image, info |-> [applied |-> <<>>]]
    ELSE IF fault = "convert"
    THEN [raised |-> FALSE, image |-> image, info |-> [applied |-> <<ERR_CONVERT>>]]
    ELSE IF fault = "none"
    THEN LET done == AppliedBefore(use_clahe, use_denoise, use_threshold, 7)
         IN  [raised |-> FALSE,
              image  |-> [image EXCEPT !.pixels = done, !.drawn = <<>>],
              info   |-> [applied |-> done]]
    ELSE LET done == AppliedBefore(use_clahe, use_denoise, use_threshold,
                                   StageIndex(fault))
         IN  [raised |-> FALSE,
              image  |-> image,
              info   |-> [applied |-> Append(done, ERR_STAGE)]]

\* the faults that can happen in a call of preprocess_image
Faults(has_opencv, use_clahe, use_denoise, use_threshold) ==
    IF has_opencv /\ (use_clahe \/ use_denoise \/ use_threshold)
    THEN {"none"} \cup Executed(use_clahe, use_denoise, use_threshold)
    ELSE {"none"}

ExtractCornerRoundingUp(image, percent) ==
    LET corner_width  == (image.width * percent + 99) \div 100
        corner_height == (image.height * percent + 99) \div 100
        x_offset      == image.width - corner_width
        y_offset      == image.height - corner_height
    IN  [image    |-> [image EXCEPT !.width  = corner_width,
                                    !.height = corner_height,
                                    !.origin = <<image.origin[1] + x_offset,
                                                 image.origin[2] + y_offset>>],
         x_offset |-> x_offset,
         y_offset |-> y_offset]

\* _extract_bottom_right_corner: int(width * corner_size) truncates.  The
\* fraction is given in percent; for 0.10 (the double just above 1/10) and
\* for 0.25 and 0.5 (exact doubles) the double product truncates to the
\* integer quotient.
_extract_bottom_right_corner(image, percent) ==
    LET corner_width  == (image.width * percent) \div 100
        corner_height == (image.height * percent) \div 100
        x_offset      == image.width - corner_width
        y_offset      == image.height - corner_height
    IN  [image    |-> [image EXCEPT !.width  = corner_width,
                                    !.height = corner_height,
                                    !.origin = <<image.origin[1] + x_offset,
                                                 image.origin[2] + y_offset>>],
         x_offset |-> x_offset,
         y_offset |-> y_offset]

(***************************************************************************)
(* Reporting helpers of process_pdf.                                       *)
(***************************************************************************)
\* self.class_names = self.model.names (classes: signature, stamp, qr_code)
class_names(cls_id) ==
    CASE cls_id = 0 -> "signature"
      [] cls_id = 1 -> "stamp"
      [] cls_id = 2 -> "qr_code"
      [] OTHER      -> "class_" \o ToString(cls_id)

category_map(cls_id) ==
    CASE cls_id = 0 -> "signature"
      [] cls_id = 1 -> "stamp"
      [] cls_id = 2 -> "qr"
      [] OTHER      -> "class_" \o ToString(cls_id)

\* round(float(v) / scale_factor, 2) for v >= 0 in units: the value in
\* hundredths of a point, ties to even
RoundHalfEven(num, den) ==
    LET q == num \div den
        r == num % den
    IN  IF 2 * r > den \/ (2 * r = den /\ q % 2 = 1) THEN q + 1 ELSE q

ToDocumentTruncated(v) ==
    LET den == 2 * Unit
    IN  (v \div den) * 100 + ((v % den) * 100) \div den

ToDocument(v) ==
    LET den == 2 * Unit
    IN  (v \div den) * 100 + RoundHalfEven((v % den) * 100, den)

\* the annotation object of detection `row` with identifier number k
\* (area = round(width * height, 3) is not modelled)
annotation_obj(row, k) ==
    [id       |-> "annotation_" \o ToString(k),
     category |-> category_map(row.cls),
     bbox     |-> [x      |-> ToDocument(row.x1),
                   y      |-> ToDocument(row.y1),
                   width  |-> ToDocument(RoundF32(row.x2 - row.x1)),
                   height |-> ToDocument(RoundF32(row.y2 - row.y1))]]

\* page_annotations: one object per detection, ids counted from `counter`
AnnotationsRestartingIds(data, counter) ==
    [i \in 1..Len(data) |-> annotation_obj(data[i], i)]

page_annotations(data, counter) ==
    [i \in 1..Len(data) |-> annotation_obj(data[i], counter + i - 1)]

\* a dict of counts: tally[label] is defined only for counted labels
Count(tally, label) ==
    IF label \in DOMAIN tally THEN tally[label] ELSE 0

TallyFirstRowOnly(tally, data) ==
    IF Len(data) = 0 THEN tally
    ELSE LET name == class_names(Head(data).cls)
         IN  (name :> (Count(tally, name) + 1)) @@ tally

RECURSIVE TallyRows(_, _)
TallyRows(tally, data) ==
    IF Len(data) = 0 THEN tally
    ELSE LET name == class_names(Head(data).cls)
         IN  TallyRows((name :> (Count(tally, name) + 1)) @@ tally, Tail(data))

EmptyTally == [label \in {} |-> 0]

Clamp(v, hi) == IF v < 0 THEN 0 ELSE IF v > hi * Unit THEN hi * Unit ELSE v

\* draw_detections: draws on `image` in place; one clamped box per detection
draw_detections(image, results) ==
    [image EXCEPT !.drawn = @ \o
        [i \in 1..Len(Dets(results)) |->
            LET row == Dets(results)[i]
            IN  [x1  |-> Clamp(row.x1, image.width),
                 y1  |-> Clamp(row.y1, image.height),
                 x2  |-> Clamp(row.x2, image.width),
                 y2  |-> Clamp(row.y2, image.height),
                 cls |-> row.cls]]]

Max(a, b) == IF a > b THEN a ELSE b

LabelTagUnclamped(box, text_width, text_height) ==
    LET label_y == box.y1 - (text_height + 4) * Unit
    IN  [x1 |-> box.x1,
         y1 |-> label_y - (text_height + 4) * Unit,
         x2 |-> box.x1 + (text_width + 8) * Unit,
         y2 |-> label_y]

\* lines 211-219: text_bg, the filled rectangle behind the label of the
\* clamped box `box`; text_width and text_height come from draw.textbbox
label_tag(box, text_width, text_height) ==
    LET label_y == Max((text_height + 4) * Unit,
                       box.y1 - (text_height + 4) * Unit)
    IN  [x1 |-> box.x1,
         y1 |-> label_y - (text_height + 4) * Unit,
         x2 |-> box.x1 + (text_width + 8) * Unit,
         y2 |-> label_y]

\* pil_to_pdf_page: a new last page of the image's size showing the image
PdfPageSkipEmpty(image, target_doc) ==
    IF Len(image.drawn) = 0 THEN target_doc
    ELSE Append(target_doc,
                [width |-> image.width, height |-> image.height, image |-> image])

PrependPage(image, target_doc) ==
    <<[width |-> image.width, height |-> image.height, image |-> image]>>
        \o target_doc

pil_to_pdf_page(image, target_doc) ==
    Append(target_doc,
           [width |-> image.width, height |-> image.height, image |-> image])

(***************************************************************************)
(* The environment: documents and predictor outputs.                       *)
(***************************************************************************)
\* a coordinate of `whole` pixels plus `frac` units, as the predictor's
\* float32 tensor holds it
Px(whole, frac) == RoundF32(whole * Unit + frac)

\* the page rectangle of the source document, in points (A4)
PageRect == <<595, 842>>

sigA   == Row(Px(100, 1), Px(200, 0), Px(300, 0), Px(260, 3), 91, 0)
sigB   == Row(Px(400, 0), Px(900, 5), Px(620, 0), Px(960, 0), 55, 0)
stampA == Row(Px(700, 0), Px(1200, 0), Px(900, 7), Px(1400, 0), 80, 1)
qrF    == Row(Px(1100, 0), Px(1560, 0), Px(1170, 0), Px(1630, 2), 62, 2)
qrC    == Row(Px(10, 1), Px(20, 3), Px(60, 5), Px(70, 0), 88, 2)
qrC2   == Row(Px(70, 0), Px(100, 0), Px(110, 9), Px(140, 0), 34, 2)
stampC == Row(Px(5, 0), Px(5, 0), Px(50, 0), Px(50, 0), 41, 1)

\* what model.predict can return for a full page and for a corner crop
FullOutputs == {<<>>, <<sigA, sigB>>, <<stampA, qrF>>}
CornerOutputs == {<<>>, <<qrC>>, <<stampC>>, <<stampC, qrC>>}

IsCrop(image) == image.origin # <<0, 0>>

Outputs(image) == IF IsCrop(image) THEN CornerOutputs ELSE FullOutputs

(***************************************************************************)
(* State.                                                                  *)
(***************************************************************************)
VARIABLES
    HAS_OPENCV,             \* module global: cv2 could be imported
    requests,               \* POST requests dispatched so far
    processor,              \* self.processor of the view instance serving the request
    modelLoads,             \* number of YOLO(model_path) constructions so far
    response,               \* the Response of the last request
    pc,                     \* position of the request being served
    opts,                   \* use_clahe, use_denoise, use_threshold
    total_pages, page_number, total_detections, detections_per_class,
    page_stats, preprocessing_applied, annotations_output, annotation_counter,
    output_doc, preprocessing_viz_doc,
    savedOutput,            \* the file at output_path
    original_image, processed_image, preprocess_info, image_to_detect,
    results_pass1, results_pass2, results,
    predictLog,             \* the model.predict calls of the current page
    predictCounts,          \* per finished page, the number of model.predict calls
    predictedAny,           \* model.predict returned a detection during this call
    fault,                  \* the cv2 call that raised in this page's preprocess_image
    fnOp, fnA, fnB, fnDx, fnDy, fnOut, fnOut2,  \* direct calls of the helpers
    fnAllowed,              \* allowed_classes of a direct call
    fnAAfter, fnBAfter,     \* what the argument objects hold after the first call
    fnDoc,                  \* the annotation objects built from A
    imOp, imImage, imFrac, imFlags, imFault, imResults, imText,
    imOut, imTags           \* direct calls of the image functions

viewVars == <<requests, processor, modelLoads, response, pc, opts>>
docVars  == <<total_pages, page_number, total_detections, detections_per_class,
              page_stats, preprocessing_applied, annotations_output,
              annotation_counter, output_doc, preprocessing_viz_doc, savedOutput,
              predictCounts>>
pageVars == <<original_image, processed_image, preprocess_info, image_to_detect,
              results_pass1, results_pass2, results, predictLog, fault>>
fnVars   == <<fnOp, fnA, fnB, fnDx, fnDy, fnOut, fnOut2, fnAllowed,
              fnAAfter, fnBAfter, fnDoc>>
imVars   == <<imOp, imImage, imFrac, imFlags, imFault, imResults, imText,
              imOut, imTags>>
vars     == <<HAS_OPENCV, viewVars, docVars, predictedAny, pageVars, fnVars,
              imVars>>

NoImage == [page |-> -1, width |-> 0, height |-> 0, pixels |-> <<>>,
            origin |-> <<0, 0>>, drawn |-> <<>>]
NoInfo == [applied |-> <<>>]
NoResult == [boxes |-> NoneBoxes]
NoFile == [written |-> FALSE, pages |-> <<>>]
NoDoc == [none |-> TRUE, pages |-> <<>>]
NoResponse == [status |-> 0, body |-> [pending |-> TRUE]]
NoOpts == [use_clahe |-> FALSE, use_denoise |-> FALSE, use_threshold |-> FALSE]

Options == [use_clahe : BOOLEAN, use_denoise : BOOLEAN, use_threshold : BOOLEAN]

\* the locals of one loop iteration, before the iteration assigns them
PageReset ==
    /\ original_image' = NoImage
    /\ processed_image' = NoImage
    /\ preprocess_info' = NoInfo
    /\ image_to_detect' = NoImage
    /\ results_pass1' = NoResult
    /\ results_pass2' = NoResult
    /\ results' = NoResult
    /\ predictLog' = <<>>
    /\ fault' = "none"

\* preprocess_info is read for the last time at lines 449 and 456 (489 and
\* 496): from the next prediction on no statement of the iteration reads it
InfoDead ==
    /\ preprocess_info' = NoInfo
    /\ fault' = "none"

\* the locals of process_pdf, before the call assigns them
DocReset ==
    /\ total_pages' = 0
    /\ page_number' = 0
    /\ total_detections' = 0
    /\ detections_per_class' = EmptyTally
    /\ page_stats' = <<>>
    /\ preprocessing_applied' = <<>>
    /\ annotations_output' = [k \in {} |-> 0]
    /\ annotation_counter' = 1
    /\ output_doc' = <<>>
    /\ preprocessing_viz_doc' = NoDoc
    /\ savedOutput' = NoFile
    /\ predictCounts' = <<>>
    /\ predictedAny' = FALSE

FnIdle ==
    /\ fnOp = "none"
    /\ fnA = NoResult /\ fnB = NoResult
    /\ fnDx = 0 /\ fnDy = 0
    /\ fnOut = NoResult /\ fnOut2 = NoResult
    /\ fnAllowed = {}
    /\ fnAAfter = NoResult /\ fnBAfter = NoResult
    /\ fnDoc = <<>>

NoText == [width |-> 0, height |-> 0]

ImIdle ==
    /\ imOp = "none"
    /\ imImage = NoImage
    /\ imFrac = CornerPercent
    /\ imFlags = NoOpts
    /\ imFault = "none"
    /\ imResults = NoResult
    /\ imText = NoText
    /\ imOut = NoImage
    /\ imTags = <<>>

PipelineIdle ==
    /\ requests = 0
    /\ processor = "None"
    /\ modelLoads = 0
    /\ response = NoResponse
    /\ pc = "idle"
    /\ opts = NoOpts
    /\ total_pages = 0 /\ page_number = 0 /\ total_detections = 0
    /\ detections_per_class = EmptyTally
    /\ page_stats = <<>> /\ preprocessing_applied = <<>>
    /\ annotations_output = [k \in {} |-> 0]
    /\ annotation_counter = 1
    /\ output_doc = <<>> /\ preprocessing_viz_doc = NoDoc
    /\ savedOutput = NoFile /\ predictCounts = <<>> /\ predictedAny = FALSE
    /\ original_image = NoImage /\ processed_image = NoImage
    /\ preprocess_info = NoInfo /\ image_to_detect = NoImage
    /\ results_pass1 = NoResult /\ results_pass2 = NoResult /\ results = NoResult
    /\ predictLog = <<>> /\ fault = "none"

Init ==
    /\ HAS_OPENCV \in BOOLEAN
    /\ PipelineIdle
    /\ FnIdle
    /\ ImIdle

(***************************************************************************)
(* ProcessPDFView.post (views.py) up to the call of process_pdf.           *)
(***************************************************************************)
ErrorResponse(message) == [status |-> 500, body |-> [error |-> message]]

\* ProcessPDFView.__init__, run by as_view() for the request being dispatched
ViewInit(current) == "None"

\* get_processor: the processor to use and whether a model is constructed
get_processor(current) ==
    IF current = "None"
    THEN [processor |-> "PDFProcessor", loads |-> 1]
    ELSE [processor |-> current, loads |-> 0]

\* two_pass_mode = use_denoise or use_threshold
TwoPassWhenAnyFlag(o) == o.use_clahe \/ o.use_denoise \/ o.use_threshold
two_pass_mode(o) == o.use_denoise \/ o.use_threshold

\* the dict process_pdf returns (thresholds and model_classes echo inputs)
Report ==
    [annotations          |-> annotations_output,
     total_pages          |-> total_pages,
     total_detections     |-> total_detections,
     detections_per_class |-> detections_per_class,
     page_stats           |-> page_stats,
     preprocessing        |->
        [enabled       |-> opts.use_clahe \/ opts.use_denoise \/ opts.use_threshold,
         two_pass_mode |-> two_pass_mode(opts),
         techniques    |-> preprocessing_applied]]

EscalateWithPartialReport(message) ==
    /\ response' = [status |-> 200, body |-> [success |-> TRUE, report |-> Report]]
    /\ pc' = "idle"

\* an exception leaves process_pdf and is caught by post (views.py:136-144)
Escalate(message) ==
    /\ response' = ErrorResponse("Error processing PDF: " \o message)
    /\ pc' = "idle"

\* urls.py: as_view() serves every request with a new view instance
Dispatch ==
    /\ pc = "idle"
    /\ requests < MaxRequests
    /\ requests' = requests + 1
    /\ processor' = ViewInit(processor)
    /\ DocReset
    /\ PageReset
    /\ opts' = NoOpts
    /\ response' = NoResponse
    /\ pc' = "post"
    /\ UNCHANGED <<HAS_OPENCV, modelLoads, fnVars, imVars>>

\* post, lines 34-48: the serializer validates the request data
Post(valid, o) ==
    /\ pc = "post"
    /\ IF valid
       THEN /\ opts' = o
            /\ pc' = "get_processor"
            /\ UNCHANGED response
       ELSE /\ response' = [status |-> 400, body |-> [pdf_file |-> "invalid"]]
            /\ pc' = "idle"
            /\ UNCHANGED opts
    /\ UNCHANGED <<HAS_OPENCV, requests, processor, modelLoads, docVars,
                   pageVars, predictedAny,
                   fnVars, imVars>>

\* processor = self.get_processor(); PDFProcessor.__init__ loads the model
GetProcessor(model_exists) ==
    /\ pc = "get_processor"
    /\ LET got == get_processor(processor)
       IN  IF got.loads > 0 /\ ~model_exists
           THEN /\ response' = ErrorResponse("Model file not found: Model not found")
                /\ pc' = "idle"
                /\ UNCHANGED <<processor, modelLoads>>
           ELSE /\ processor' = got.processor
                /\ modelLoads' = modelLoads + got.loads
                /\ pc' = "open"
                /\ UNCHANGED response
    /\ UNCHANGED <<HAS_OPENCV, requests, opts, docVars, pageVars, predictedAny,
                   fnVars, imVars>>

(***************************************************************************)
(* PDFProcessor.process_pdf.                                               *)
(***************************************************************************)
\* lines 391-411: open the documents, initialise the locals
OpenPdf(readable, n) ==
    /\ pc = "open"
    /\ IF readable
       THEN /\ total_pages' = n
            /\ preprocessing_viz_doc' =
                  IF opts.use_clahe \/ opts.use_denoise \/ opts.use_threshold
                  THEN [none |-> FALSE, pages |-> <<>>] ELSE NoDoc
            /\ pc' = "loop"
            /\ UNCHANGED response
       ELSE /\ Escalate("cannot open document")
            /\ UNCHANGED <<total_pages, preprocessing_viz_doc>>
    /\ UNCHANGED <<HAS_OPENCV, requests, processor, modelLoads, opts,
                   page_number, total_detections, detections_per_class,
                   page_stats, preprocessing_applied, annotations_output,
                   annotation_counter, output_doc, savedOutput, predictCounts,
                   pageVars, predictedAny,
                   fnVars, imVars>>

\* lines 413-424, 476: the next iteration rasterizes its page
NextPage ==
    /\ pc = "loop"
    /\ page_number < total_pages
    /\ original_image' = page_to_pil(page_number, PageRect)
    /\ pc' = IF two_pass_mode(opts) THEN "pass1" ELSE "preprocess1"
    /\ UNCHANGED <<HAS_OPENCV, requests, processor, modelLoads, response, opts,
                   docVars, processed_image, preprocess_info, image_to_detect,
                   results_pass1, results_pass2, results, predictLog, fault,
                   predictedAny,
                   fnVars, imVars>>

Call(pass, image, out, raised) ==
    [pass |-> pass, image |-> image, out |-> out, raised |-> raised]

\* lines 429-435: pass 1 on the original image
Pass1(out, raises) ==
    /\ pc = "pass1"
    /\ out \in Outputs(original_image)
    /\ raises => out = <<>>
    /\ predictedAny' = (predictedAny \/ Len(out) > 0)
    /\ predictLog' = Append(predictLog, Call(1, original_image, out, raises))
    /\ IF raises
       THEN /\ Escalate("predict")
            /\ UNCHANGED results_pass1
       ELSE /\ results_pass1' = Result(out)
            /\ pc' = "preprocess2"
            /\ UNCHANGED response
    /\ UNCHANGED <<HAS_OPENCV, requests, processor, modelLoads, opts, docVars,
                   original_image, processed_image, preprocess_info,
                   image_to_detect, results_pass2, results, fault, fnVars, imVars>>

\* _create_preprocessing_comparison: one comparison page per call
Comparison(info, page_num) == [page_num |-> page_num]

\* lines 440-459 and 480-499: preprocess, keep page 0's info, visualize
Preprocess(use_clahe, use_denoise, use_threshold, f, next) ==
    /\ f \in Faults(HAS_OPENCV, use_clahe, use_denoise, use_threshold)
    /\ fault' = f
    /\ LET r == preprocess_image(HAS_OPENCV, original_image,
                                 use_clahe, use_denoise, use_threshold, f)
       IN  IF r.raised
           THEN /\ Escalate("preprocess")
                /\ UNCHANGED <<processed_image, preprocess_info,
                               preprocessing_applied, preprocessing_viz_doc>>
           ELSE /\ processed_image' = r.image
                /\ preprocess_info' = r.info
                /\ preprocessing_applied' =
                      IF page_number = 0 THEN r.info.applied
                      ELSE preprocessing_applied
                /\ preprocessing_viz_doc' =
                      IF preprocessing_viz_doc.none THEN preprocessing_viz_doc
                      ELSE [preprocessing_viz_doc EXCEPT !.pages =
                              Append(@, Comparison(r.info, page_number + 1))]
                /\ pc' = next
                /\ UNCHANGED response


\* lines 438-459: two-pass mode preprocesses the original image
PreprocessTwoPass(f) ==
    /\ pc = "preprocess2"
    /\ Preprocess(opts.use_clahe, opts.use_denoise, opts.use_threshold, f, "pass2")
    /\ UNCHANGED image_to_detect
    /\ UNCHANGED <<HAS_OPENCV, requests, processor, modelLoads, opts,
                   total_pages, page_number, total_detections,
                   detections_per_class, page_stats, annotations_output,
                   annotation_counter, output_doc, savedOutput, predictCounts,
                   original_image, results_pass1, results_pass2, results,
                   predictLog, predictedAny,
                   fnVars, imVars>>

\* _detect_on_bottom_right_corner after model.predict returned `out`
CornerKeepsAllClasses(corner, out) ==
    _adjust_detection_coordinates(Result(out), corner.x_offset, corner.y_offset)

corner_results(corner, out) ==
    LET filtered == _filter_detections_by_class(Result(out), {QR_CLASS})
    IN  IF ~filtered.boxes.none /\ Len(filtered.boxes.data) > 0
        THEN _adjust_detection_coordinates(filtered, corner.x_offset, corner.y_offset)
        ELSE filtered

Pass2OnOriginal(out, raises) ==
    /\ pc = "pass2"
    /\ LET corner == _extract_bottom_right_corner(original_image, CornerPercent)
       IN  /\ out \in Outputs(corner.image)
           /\ raises => out = <<>>
           /\ predictedAny' = (predictedAny \/ Len(out) > 0)
           /\ predictLog' = Append(predictLog, Call(2, corner.image, out, raises))
           /\ IF raises
              THEN /\ Escalate("predict")
                   /\ UNCHANGED results_pass2
              ELSE /\ results_pass2' = corner_results(corner, out)
                   /\ pc' = "merge"
                   /\ UNCHANGED response
    /\ InfoDead
    /\ UNCHANGED <<HAS_OPENCV, requests, processor, modelLoads, opts, docVars,
                   original_image, processed_image,
                   image_to_detect, results_pass1, results, fnVars, imVars>>

\* lines 462-467 (_detect_on_bottom_right_corner, lines 341-365)
Pass2(out, raises) ==
    /\ pc = "pass2"
    /\ LET corner == _extract_bottom_right_corner(processed_image, CornerPercent)
       IN  /\ out \in Outputs(corner.image)
           /\ raises => out = <<>>
           /\ predictedAny' = (predictedAny \/ Len(out) > 0)
           /\ predictLog' = Append(predictLog, Call(2, corner.image, out, raises))
           /\ IF raises
              THEN /\ Escalate("predict")
                   /\ UNCHANGED results_pass2
              ELSE /\ results_pass2' = corner_results(corner, out)
                   /\ pc' = "merge"
                   /\ UNCHANGED response
    /\ InfoDead
    /\ UNCHANGED <<HAS_OPENCV, requests, processor, modelLoads, opts, docVars,
                   original_image, processed_image,
                   image_to_detect, results_pass1, results, fnVars, imVars>>

\* line 472; _merge_detections returns results1 itself unless it is empty
Merge ==
    /\ pc = "merge"
    /\ results' = _merge_detections(results_pass1, results_pass2)
    /\ results_pass1' = IF IsEmpty(results_pass1) THEN results_pass1
                        ELSE _merge_detections(results_pass1, results_pass2)
    /\ pc' = "annotate"
    /\ UNCHANGED <<HAS_OPENCV, requests, processor, modelLoads, response, opts,
                   docVars, original_image, processed_image, preprocess_info,
                   image_to_detect, results_pass2, predictLog, fault, predictedAny,
                   fnVars, imVars>>

\* lines 476-503: single-pass mode preprocesses with CLAHE only, or not at all
SinglePreprocess(f) ==
    /\ pc = "preprocess1"
    /\ IF opts.use_clahe
       THEN /\ Preprocess(opts.use_clahe, FALSE, FALSE, f, "predict1")
            /\ image_to_detect' =
                  preprocess_image(HAS_OPENCV, original_image,
                                   opts.use_clahe, FALSE, FALSE, f).image
       ELSE /\ f = "none"
            /\ image_to_detect' = original_image
            /\ pc' = "predict1"
            /\ UNCHANGED <<processed_image, preprocess_info, fault, response,
                           preprocessing_applied, preprocessing_viz_doc>>
    /\ UNCHANGED <<HAS_OPENCV, requests, processor, modelLoads, opts,
                   total_pages, page_number, total_detections,
                   detections_per_class, page_stats, annotations_output,
                   annotation_counter, output_doc, savedOutput, predictCounts,
                   original_image, results_pass1, results_pass2, results,
                   predictLog, predictedAny,
                   fnVars, imVars>>

\* lines 507-513: the only prediction of single-pass mode
SinglePredict(out, raises) ==
    /\ pc = "predict1"
    /\ out \in Outputs(image_to_detect)
    /\ raises => out = <<>>
    /\ predictedAny' = (predictedAny \/ Len(out) > 0)
    /\ predictLog' = Append(predictLog, Call(0, image_to_detect, out, raises))
    /\ IF raises
       THEN /\ Escalate("predict")
            /\ UNCHANGED results
       ELSE /\ results' = Result(out)
            /\ pc' = "annotate"
            /\ UNCHANGED response
    /\ InfoDead
    /\ UNCHANGED <<HAS_OPENCV, requests, processor, modelLoads, opts, docVars,
                   original_image, processed_image,
                   image_to_detect, results_pass1, results_pass2, fnVars, imVars>>

page_key(n) == "page_" \o ToString(n + 1)

\* lines 516-590: annotations, tallies, drawing, the output page, page_stats
Annotate ==
    /\ pc = "annotate"
    /\ LET data == Dets(results)
           page_detections == Len(data)
       IN  /\ annotations_output' =
                 (page_key(page_number) :>
                    [annotations |-> page_annotations(data, annotation_counter),
                     page_size   |-> [width |-> PageRect[1], height |-> PageRect[2]]])
                 @@ annotations_output
           /\ annotation_counter' = annotation_counter + page_detections
           /\ detections_per_class' = TallyRows(detections_per_class, data)
           /\ output_doc' =
                 pil_to_pdf_page(draw_detections(original_image, results), output_doc)
           /\ total_detections' = total_detections + page_detections
           /\ page_stats' = Append(page_stats,
                 [page       |-> page_number + 1,
                  detections |-> page_detections,
                  classes    |-> TallyRows(EmptyTally, data)])
    /\ predictCounts' = Append(predictCounts, Len(predictLog))
    /\ page_number' = page_number + 1
    /\ PageReset
    /\ pc' = "loop"
    /\ UNCHANGED <<HAS_OPENCV, requests, processor, modelLoads, response, opts,
                   total_pages, preprocessing_applied, preprocessing_viz_doc,
                   savedOutput, predictedAny,
                   fnVars, imVars>>

\* lines 592-625 and views.py:99-127: save, return the report, respond
Save ==
    /\ pc = "loop"
    /\ page_number = total_pages
    /\ savedOutput' = [written |-> TRUE, pages |-> output_doc]
    /\ response' = [status |-> 200, body |-> [success |-> TRUE, report |-> Report]]
    /\ pc' = "idle"
    /\ UNCHANGED <<HAS_OPENCV, requests, processor, modelLoads, opts,
                   total_pages, page_number, total_detections,
                   detections_per_class, page_stats, preprocessing_applied,
                   annotations_output, annotation_counter, output_doc,
                   preprocessing_viz_doc, predictCounts, pageVars, predictedAny,
                   fnVars, imVars>>

Next ==
    \/ Dispatch
    \/ \E valid \in BOOLEAN, o \in Options : Post(valid, o)
    \/ \E model_exists \in BOOLEAN : GetProcessor(model_exists)
    \/ \E readable \in BOOLEAN, n \in 1..MaxPages : OpenPdf(readable, n)
    \/ NextPage
    \/ \E out \in FullOutputs, raises \in BOOLEAN : Pass1(out, raises)
    \/ \E f \in Range(Stages) \cup {"none"} : PreprocessTwoPass(f)
    \/ \E out \in CornerOutputs, raises \in BOOLEAN : Pass2(out, raises)
    \/ Merge
    \/ \E f \in Range(Stages) \cup {"none"} : SinglePreprocess(f)
    \/ \E out \in FullOutputs, raises \in BOOLEAN : SinglePredict(out, raises)
    \/ Annotate
    \/ Save

Spec == Init /\ [][Next]_vars

(***************************************************************************)
(* Direct calls of the detection helpers, on inputs drawn from bounded     *)
(* sets.                                                                   *)
(***************************************************************************)
\* boxes with quarter-pixel coordinates, and one wider than 1024 pixels
quarterA == Row(Px(10, Unit \div 4), Px(21, 3 * (Unit \div 4)),
                Px(1600, Unit \div 4), Px(77, 1), 70, 0)
quarterB == Row(Px(99, Unit - 1), Px(0, 0), Px(640, Unit \div 8), Px(33, 5), 45, 1)

ResultPool ==
    {Result(out) : out \in FullOutputs \cup CornerOutputs
                            \cup {<<qrC, stampC, qrC2>>, <<quarterA, quarterB>>}}
        \cup {NoResult}

EmptyResults == {Result(<<>>), NoResult}

\* the label set of the model: 0 signature, 1 stamp, 2 qr_code
KnownClasses == {0, 1, 2}

\* offsets in pixels, among them the corner offsets of the A4 page image
Offsets == {-1071, -3, 0, 3, 1071, 1516}

FnInit ==
    /\ HAS_OPENCV = TRUE
    /\ PipelineIdle
    /\ fnOp = "none"
    /\ fnA \in ResultPool
    /\ fnB \in ResultPool
    /\ fnDx \in Offsets
    /\ fnDy \in Offsets
    /\ fnOut = NoResult
    /\ fnOut2 = NoResult
    /\ fnAllowed \in SUBSET KnownClasses
    /\ fnAAfter = fnA
    /\ fnBAfter = fnB
    /\ fnDoc = <<>>
    /\ ImIdle

\* merge(A, B), then merge(merge(A, B), empty)
FnMerge(empty) ==
    /\ fnOp = "none"
    /\ fnOp' = "merge"
    /\ fnOut' = _merge_detections(fnA, fnB)
    /\ fnOut2' = _merge_detections(_merge_detections(fnA, fnB), empty)
    /\ fnAAfter' = Arg1AfterMerge(fnA, fnB)
    /\ fnBAfter' = Arg2AfterMerge(fnA, fnB)
    /\ UNCHANGED <<HAS_OPENCV, viewVars, docVars, predictedAny, pageVars,
                   fnA, fnB, fnDx, fnDy, fnAllowed, fnDoc, imVars>>

\* translate(A, dx, dy), then translate(translate(A, dx, dy), -dx, -dy)
FnTranslate ==
    /\ fnOp = "none"
    /\ fnOp' = "translate"
    /\ fnOut' = _adjust_detection_coordinates(fnA, fnDx, fnDy)
    /\ fnOut2' = _adjust_detection_coordinates(
                    _adjust_detection_coordinates(fnA, fnDx, fnDy), -fnDx, -fnDy)
    /\ fnAAfter' = ArgAfterAdjust(fnA, fnDx, fnDy)
    /\ UNCHANGED <<HAS_OPENCV, viewVars, docVars, predictedAny, pageVars,
                   fnA, fnB, fnDx, fnDy, fnAllowed, fnBAfter, fnDoc,
                   imVars>>

\* filter(A, allowed_classes)
FnFilter ==
    /\ fnOp = "none"
    /\ fnOp' = "filter"
    /\ fnOut' = _filter_detections_by_class(fnA, fnAllowed)
    /\ fnAAfter' = ArgAfterFilter(fnA, fnAllowed)
    /\ UNCHANGED <<HAS_OPENCV, viewVars, docVars, predictedAny, pageVars,
                   fnA, fnB, fnDx, fnDy, fnAllowed, fnOut2, fnBAfter,
                   fnDoc, imVars>>

\* lines 524-565 on the boxes of A: the page's annotation objects
FnAnnotate ==
    /\ fnOp = "none"
    /\ fnOp' = "document"
    /\ fnDoc' = page_annotations(Dets(fnA), 1)
    /\ UNCHANGED <<HAS_OPENCV, viewVars, docVars, predictedAny, pageVars,
                   fnA, fnB, fnDx, fnDy, fnAllowed, fnOut, fnOut2, fnAAfter,
                   fnBAfter, imVars>>

FnNext ==
    \/ \E empty \in EmptyResults : FnMerge(empty)
    \/ FnTranslate
    \/ FnFilter
    \/ FnAnnotate

SpecFn == FnInit /\ [][FnNext]_vars

(***************************************************************************)
(* Direct calls of the image functions, on inputs drawn from bounded sets. *)
(***************************************************************************)
\* a PIL image of the given size with nothing drawn on it
Picture(width, height) ==
    [page |-> 0, width |-> width, height |-> height, pixels |-> <<>>,
     origin |-> <<0, 0>>, drawn |-> <<>>]

\* among them the image of an A4 page at scale 2.0
Pictures == {Picture(w, h) : w \in {99, 1190, 1191}, h \in {60, 1684}}

\* corner_size in percent: the default and two exact binary fractions
Fractions == {CornerPercent, 25, 50}

\* a box that leaves the image on the left and at the top
edgeBox == Row(Px(-3, 0), Px(-8, 0), Px(40, 0), Px(30, 5), 50, 1)
lowBox  == Row(Px(20, 0), Px(33, 1), Px(90, 0), Px(58, 0), 77, 0)

DrawPool == {Result(<<sigA, sigB>>), Result(<<stampC, qrC>>),
             Result(<<edgeBox, lowBox>>), NoResult}

\* (text_width, text_height) as draw.textbbox reports them for the font
TextSizes == {[width |-> 40, height |-> 11], [width |-> 96, height |-> 17]}

ImInit ==
    /\ HAS_OPENCV \in BOOLEAN
    /\ PipelineIdle
    /\ FnIdle
    /\ imOp = "none"
    /\ imImage \in Pictures
    /\ imFrac \in Fractions
    /\ imFlags \in Options
    /\ imFault \in Range(Stages) \cup {"none"}
    /\ imResults \in DrawPool
    /\ imText \in TextSizes
    /\ imOut = NoImage
    /\ imTags = <<>>

ImFrame ==
    UNCHANGED <<HAS_OPENCV, viewVars, docVars, predictedAny, pageVars, fnVars,
                imImage, imFrac, imFlags, imFault, imResults, imText>>

ImCorner ==
    /\ imOp = "none"
    /\ imOp' = "corner"
    /\ imOut' = _extract_bottom_right_corner(imImage, imFrac)
    /\ UNCHANGED imTags
    /\ ImFrame

ImPreprocess ==
    /\ imOp = "none"
    /\ imFault \in Faults(HAS_OPENCV, imFlags.use_clahe, imFlags.use_denoise,
                           imFlags.use_threshold)
    /\ imOp' = "preprocess"
    /\ imOut' = preprocess_image(HAS_OPENCV, imImage, imFlags.use_clahe,
                                 imFlags.use_denoise, imFlags.use_threshold,
                                 imFault)
    /\ UNCHANGED imTags
    /\ ImFrame

ImDraw ==
    /\ imOp = "none"
    /\ imOp' = "draw"
    /\ LET drawn == draw_detections(imImage, imResults)
       IN  /\ imOut' = drawn
           /\ imTags' = [i \in 1..Len(drawn.drawn) |->
                            label_tag(drawn.drawn[i], imText.width, imText.height)]
    /\ ImFrame

ImNext ==
    \/ ImCorner
    \/ ImPreprocess
    \/ ImDraw

SpecImg == ImInit /\ [][ImNext]_vars

(***************************************************************************)
(* Properties.                                                             *)
(***************************************************************************)
Succeeded == response.status = 200

TheReport == response.body.report

Last(seq) == seq[Len(seq)]

PredictorFailed == Len(predictLog) > 0 /\ Last(predictLog).raised

HasErrorNote(applied) ==
    \E i \in 1..Len(applied) : applied[i] \in {ERR_CONVERT, ERR_STAGE}

\* C1: two-pass mode is selected exactly when use_denoise or use_threshold
\* is set, and every page takes exactly one model.predict call in
\* single-pass mode (CLAHE only or no preprocessing) and exactly two in
\* two-pass mode.
C1_PredictCallsPerPage ==
    LET two == opts.use_denoise \/ opts.use_threshold
        per == IF two THEN 2 ELSE 1
    IN  /\ pc \in {"pass1", "preprocess2", "pass2", "merge"} => two
        /\ pc \in {"preprocess1", "predict1"} => ~two
        /\ \A i \in 1..Len(predictCounts) : predictCounts[i] = per
        /\ Len(predictLog) <= per
        /\ pc = "annotate" => Len(predictLog) = per
        /\ Succeeded =>
              /\ TheReport.preprocessing.two_pass_mode = two
              /\ Len(predictCounts) = total_pages

C1_Witness ==
    /\ Succeeded
    /\ opts.use_clahe /\ ~opts.use_denoise /\ ~opts.use_threshold
    /\ predictCounts = <<1, 1>>

\* C2: in two-pass mode the page's final detections are the pass-1
\* detections, unchanged, followed by the QR (class 2) detections of pass 2
\* with the corner crop's offset added to both corners; pass-2 detections of
\* another class never appear.
C2_TwoPassMerge ==
    (pc = "annotate" /\ Len(predictLog) = 2) =>
        LET pass1 == predictLog[1].out
            pass2 == predictLog[2].out
            off   == predictLog[2].image.origin
            IsQR(row) == row.cls = 2
            qr    == SelectSeq(pass2, IsQR)
            final == Dets(results)
        IN  /\ off = <<original_image.width - original_image.width \div 10,
                       original_image.height - original_image.height \div 10>>
            /\ Len(final) = Len(pass1) + Len(qr)
            /\ \A i \in 1..Len(pass1) : final[i] = pass1[i]
            /\ \A j \in 1..Len(qr) :
                  LET got == final[Len(pass1) + j]
                  IN  /\ got.cls = 2
                      /\ got.conf = qr[j].conf
                      /\ got.x1 = RoundF32(qr[j].x1 + off[1] * Unit)
                      /\ got.x2 = RoundF32(qr[j].x2 + off[1] * Unit)
                      /\ got.y1 = RoundF32(qr[j].y1 + off[2] * Unit)
                      /\ got.y2 = RoundF32(qr[j].y2 + off[2] * Unit)

C2_Witness ==
    /\ pc = "annotate"
    /\ opts.use_denoise
    /\ Len(predictLog) = 2
    /\ predictLog[1].out = <<sigA, sigB>>
    /\ predictLog[2].out = <<qrC>>
    /\ Len(Dets(results)) = 3
    /\ Dets(results)[3].x1 > qrC.x1 + 1000 * Unit

\* C3: when model.predict raises on a page, process_pdf ends at once: no
\* later page is processed, no report is returned, the output PDF is not
\* written and the response is an error with a message and no report.
C3_PredictorFailureAborts ==
    PredictorFailed =>
        /\ pc = "idle"
        /\ response.status = 500
        /\ "error" \in DOMAIN response.body
        /\ "report" \notin DOMAIN response.body
        /\ ~savedOutput.written
        /\ page_number < total_pages
        /\ original_image.page = page_number
        /\ Len(page_stats) = page_number
        /\ Len(output_doc) = page_number

C3_Witness ==
    /\ PredictorFailed
    /\ page_number = 1
    /\ Len(page_stats) = 1
    /\ total_pages = 2

\* C4: a failure in a stage of preprocess_image does not escalate: the
\* function returns the original image and a technique list holding an
\* error note, and process_pdf goes on with the page and the document.
C4_PreprocessFailureRecovered ==
    /\ fault # "none" =>
          /\ pc \in {"pass2", "predict1"}
          /\ response = NoResponse
          /\ processed_image = original_image
          /\ HasErrorNote(preprocess_info.applied)
          /\ pc = "predict1" => image_to_detect = original_image
    /\ "error" \in DOMAIN response.body =>
          response.body.error # "Error processing PDF: preprocess"

C4_Witness ==
    /\ Succeeded
    /\ total_pages = 2
    /\ Len(TheReport.page_stats) = 2
    /\ HasErrorNote(TheReport.preprocessing.techniques)

IsPrefix(s, t) == Len(s) <= Len(t) /\ \A i \in 1..Len(s) : s[i] = t[i]

C5_SuccessfulOutput ==
    Succeeded =>
        /\ savedOutput.written
        /\ Len(savedOutput.pages) = total_pages
        /\ \A i \in 1..total_pages :
              /\ savedOutput.pages[i].image.page = i - 1
              /\ savedOutput.pages[i].image.pixels = <<>>
              /\ Len(savedOutput.pages[i].image.drawn)
                    = TheReport.page_stats[i].detections
        /\ Len(TheReport.page_stats) = total_pages
        /\ \A i \in 1..total_pages : TheReport.page_stats[i].page = i
        /\ DOMAIN TheReport.annotations
              = {"page_" \o ToString(i) : i \in 1..total_pages}

\* a step of one process_pdf call only appends to output_doc (the step that
\* dispatches the next request starts a new call with a new document)
C5_AppendOnly ==
    [][pc' # "post" =>
          /\ IsPrefix(output_doc, output_doc')
          /\ Len(output_doc') <= Len(output_doc) + 1]_vars

\* C5: after a successful process_pdf on N pages the output PDF has exactly
\* N pages in source page order, page_stats has the N entries 1..N in order,
\* the annotations map has exactly the keys page_1..page_N, and pages are
\* only ever appended to the output document.
C5_OutputPagesInOrder == []C5_SuccessfulOutput /\ C5_AppendOnly

C5_Witness ==
    /\ Succeeded
    /\ total_pages = 2
    /\ Len(savedOutput.pages) = 2
    /\ Len(savedOutput.pages[1].image.drawn) = 2
    /\ Len(savedOutput.pages[2].image.drawn) = 0

\* C6: a 1-page document on which the predictor returns no detection gives
\* total_detections = 0, page_stats = [{page: 1, detections: 0, classes: {}}],
\* an empty annotations list for page_1 and an output PDF of exactly 1 page.
C6_ZeroDetections ==
    (Succeeded /\ total_pages = 1 /\ ~predictedAny) =>
        /\ TheReport.total_detections = 0
        /\ TheReport.page_stats =
              <<[page |-> 1, detections |-> 0, classes |-> EmptyTally]>>
        /\ DOMAIN TheReport.page_stats[1].classes = {}
        /\ TheReport.annotations["page_1"].annotations = <<>>
        /\ DOMAIN TheReport.detections_per_class = {}
        /\ savedOutput.written
        /\ Len(savedOutput.pages) = 1

C6_Witness ==
    /\ Succeeded /\ total_pages = 1 /\ ~predictedAny
    /\ opts.use_threshold
    /\ predictCounts = <<2>>

RECURSIVE AnnotationsUpTo(_)
AnnotationsUpTo(n) ==
    IF n = 0 THEN <<>>
    ELSE AnnotationsUpTo(n - 1)
            \o annotations_output["page_" \o ToString(n)].annotations

\* C7: annotation identifiers are sequential over the whole document: in
\* page order and detection order the k-th annotation has id annotation_k,
\* no id is repeated, and the counter is not reset between pages.
C7_SequentialIds ==
    LET all == AnnotationsUpTo(Len(page_stats))
    IN  /\ \A k \in 1..Len(all) : all[k].id = "annotation_" \o ToString(k)
        /\ \A j, k \in 1..Len(all) : j # k => all[j].id # all[k].id
        /\ annotation_counter = Len(all) + 1
        /\ Len(all) = total_detections

C7_Witness ==
    /\ Succeeded
    /\ total_pages = 2
    /\ Len(annotations_output["page_1"].annotations) = 3
    /\ Len(annotations_output["page_2"].annotations) = 2
    /\ annotations_output["page_2"].annotations[1].id = "annotation_4"

\* C8: the model is constructed at most once over any sequence of requests
\* (and never between the pages of one document).
C8_ModelLoadedOnce == modelLoads <= 1

\* C9: merge(A, B) of two non-empty sets holds len(A) + len(B) detections,
\* A's before B's, each unchanged; when one input is empty the other is
\* returned unchanged; merge(merge(A, B), empty) holds the detections of
\* merge(A, B).
C9_Merge ==
    fnOp = "merge" =>
        LET a == Dets(fnA)
            b == Dets(fnB)
            m == Dets(fnOut)
        IN  /\ (Len(a) > 0 /\ Len(b) > 0) =>
                  /\ Len(m) = Len(a) + Len(b)
                  /\ \A i \in 1..Len(a) : m[i] = a[i]
                  /\ \A j \in 1..Len(b) : m[Len(a) + j] = b[j]
            /\ Len(a) = 0 => fnOut = fnB
            /\ (Len(a) > 0 /\ Len(b) = 0) => fnOut = fnA
            /\ Dets(fnOut2) = m

C9_Witness ==
    /\ fnOp = "merge"
    /\ Dets(fnA) = <<sigA, sigB>>
    /\ Dets(fnB) = <<qrC>>
    /\ Dets(fnOut) = <<sigA, sigB, qrC>>

\* the largest float32 rounding error at the magnitude of n, in units: half
\* the spacing of float32 values there (0 where every multiple of the unit
\* is a float32 value)
HalfUlp(n) ==
    LET a == Abs(n)
    IN  IF a < 2^MantissaBits THEN 0
        ELSE LET s == CHOOSE k \in 1..7 :
                        /\ a \div (2^k) < 2^MantissaBits
                        /\ a \div (2^(k-1)) >= 2^MantissaBits
             IN  2^(s-1)

CoordFields == {"x1", "y1", "x2", "y2"}

\* the offset, in units, that a translation by (dx, dy) adds to a field
Shift(field, dx, dy) == IF field \in {"x1", "x2"} THEN dx * Unit ELSE dy * Unit

\* the statement of C10 as the specification gives it: the round trip is the
\* identity
C10_ExactRoundTrip ==
    fnOp = "translate" => Dets(fnOut2) = Dets(fnA)

\* C10: translation adds (dx, dy) to both corner points of every box, in
\* float32, and is a no-op on an empty set; translating by (dx, dy) and then
\* by (-dx, -dy) keeps the number, order, classes and confidences of the
\* detections and restores every coordinate to within the float32 rounding
\* error of the two additions, exactly so when the translated coordinate is
\* a float32 value.
C10_TranslateRoundTrip ==
    fnOp = "translate" =>
        LET a == Dets(fnA)
            t == Dets(fnOut)
            b == Dets(fnOut2)
        IN  /\ Len(t) = Len(a)
            /\ Len(b) = Len(a)
            /\ Len(a) = 0 => (fnOut = fnA /\ fnOut2 = fnA)
            /\ \A i \in 1..Len(a) :
                  /\ t[i].cls = a[i].cls /\ t[i].conf = a[i].conf
                  /\ b[i].cls = a[i].cls /\ b[i].conf = a[i].conf
                  /\ \A c \in CoordFields :
                        LET d     == Shift(c, fnDx, fnDy)
                            exact == a[i][c] + d
                        IN  /\ Abs(t[i][c] - exact) <= HalfUlp(exact)
                            /\ t[i][c] = exact => b[i][c] = a[i][c]
                            /\ Abs(b[i][c] - a[i][c])
                                  <= HalfUlp(exact) + HalfUlp(t[i][c] - d)

C10_Witness ==
    /\ fnOp = "translate"
    /\ fnA = Result(<<qrC>>)
    /\ fnDx = 1071 /\ fnDy = 1516
    /\ Dets(fnOut)[1].x2 # qrC.x2 + 1071 * Unit
    /\ Dets(fnOut2)[1].x2 # qrC.x2
    /\ Dets(fnOut2)[1].y2 = qrC.y2

\* C11: filtering keeps exactly the detections whose class is allowed, in
\* their original order: an empty list of classes keeps none, the list of all
\* known classes keeps all, and when nothing matches the result is an empty
\* result (boxes None), not an error.
C11_FilterByClass ==
    fnOp = "filter" =>
        LET a == Dets(fnA)
            f == Dets(fnOut)
            allowed == {i \in 1..Len(a) : a[i].cls \in fnAllowed}
        IN  /\ Len(f) = Cardinality(allowed)
            /\ \A i \in 1..Len(f) : f[i].cls \in fnAllowed
            /\ \E idx \in [1..Len(f) -> 1..Len(a)] :
                  /\ \A i \in 1..Len(f) : f[i] = a[idx[i]]
                  /\ \A i, j \in 1..Len(f) : i < j => idx[i] < idx[j]
            /\ fnAllowed = {} => Len(f) = 0
            /\ fnAllowed = KnownClasses => (f = a /\ fnOut = fnA)
            /\ (Len(a) > 0 /\ allowed = {}) => fnOut.boxes.none

C11_Witness ==
    /\ fnOp = "filter"
    /\ Dets(fnA) = <<qrC, stampC, qrC2>>
    /\ fnAllowed = {2}
    /\ Dets(fnOut) = <<qrC, qrC2>>

\* C15: after a helper has returned, every result object it was given
\* still holds the detections it held before the call.
C15_InputsNotMutated ==
    fnOp \in {"merge", "translate", "filter"} =>
        /\ Dets(fnAAfter) = Dets(fnA)
        /\ Dets(fnBAfter) = Dets(fnB)

\* C12: for an image of size (W, H) and fraction f the corner crop has size
\* floor(W*f) x floor(H*f), the offsets are W - floor(W*f) and
\* H - floor(H*f), and the crop's bottom-right corner is (W, H).
C12_CornerExtraction ==
    imOp = "corner" =>
        LET W  == imImage.width
            H  == imImage.height
            cw == imOut.image.width
            ch == imOut.image.height
        IN  /\ cw * 100 <= W * imFrac /\ W * imFrac < (cw + 1) * 100
            /\ ch * 100 <= H * imFrac /\ H * imFrac < (ch + 1) * 100
            /\ imOut.x_offset = W - cw
            /\ imOut.y_offset = H - ch
            /\ imOut.image.origin = <<imOut.x_offset, imOut.y_offset>>
            /\ imOut.image.origin[1] + cw = W
            /\ imOut.image.origin[2] + ch = H

C12_Witness ==
    /\ imOp = "corner"
    /\ imImage.width = 1191 /\ imImage.height = 1684
    /\ imFrac = 10
    /\ imOut.x_offset = 1072 /\ imOut.y_offset = 1516
    /\ imOut.image.width = 119 /\ imOut.image.height = 168

\* C13: without OpenCV a requested preprocessing returns the input image
\* and exactly one explanatory entry, raising nothing; with OpenCV and no
\* technique requested it returns the input image and an empty list.
C13_IdentityPreprocessing ==
    imOp = "preprocess" =>
        LET requested == imFlags.use_clahe \/ imFlags.use_denoise
                            \/ imFlags.use_threshold
        IN  /\ (~HAS_OPENCV /\ requested) =>
                  /\ imOut.image = imImage
                  /\ Len(imOut.info.applied) = 1
                  /\ imOut.info.applied[1] = UNAVAILABLE
                  /\ ~imOut.raised
            /\ (HAS_OPENCV /\ ~requested) =>
                  /\ imOut.image = imImage
                  /\ imOut.info.applied = <<>>
                  /\ ~imOut.raised

C13_Witness ==
    /\ imOp = "preprocess"
    /\ ~HAS_OPENCV
    /\ imFlags.use_denoise /\ imFlags.use_clahe
    /\ imOut.image = imImage
    /\ Len(imOut.info.applied) = 1

\* C17: with OpenCV and no failing stage the requested stages are applied
\* in the order CLAHE, denoising, thresholding, each on the output of the
\* one before, and the technique list is the requested stages in that order
\* followed by Sharpening; sharpening happens exactly when one of the three
\* ran, never alone.
C17_StageOrder ==
    (imOp = "preprocess" /\ HAS_OPENCV /\ imFault = "none") =>
        LET On(st) == st.on
            chosen == SelectSeq(
                        <<[on |-> imFlags.use_clahe, name |-> CLAHE],
                          [on |-> imFlags.use_denoise, name |-> DENOISE],
                          [on |-> imFlags.use_threshold, name |-> THRESHOLD]>>, On)
            names == [i \in 1..Len(chosen) |-> chosen[i].name]
            expected == IF Len(names) > 0 THEN Append(names, SHARPEN) ELSE <<>>
        IN  /\ ~imOut.raised
            /\ imOut.info.applied = expected
            /\ imOut.image.pixels = imImage.pixels \o expected
            /\ (SHARPEN \in Range(imOut.info.applied)) <=> Len(names) > 0
            /\ imOut.info.applied # <<SHARPEN>>

C17_Witness ==
    /\ imOp = "preprocess"
    /\ HAS_OPENCV /\ imFault = "none"
    /\ imFlags.use_clahe /\ ~imFlags.use_denoise /\ imFlags.use_threshold
    /\ imOut.info.applied = <<CLAHE, THRESHOLD, SHARPEN>>
    /\ imOut.image.pixels = <<CLAHE, THRESHOLD, SHARPEN>>

\* every drawn box lies within [0, width] x [0, height] and is the
\* detection's box with each coordinate moved to the nearest bound
BoxesClamped ==
    LET rows == Dets(imResults)
        W    == imImage.width * Unit
        H    == imImage.height * Unit
        Near(v, hi) == IF v < 0 THEN 0 ELSE IF v > hi THEN hi ELSE v
    IN  /\ Len(imOut.drawn) = Len(rows)
        /\ \A i \in 1..Len(rows) :
              LET box == imOut.drawn[i]
              IN  /\ 0 <= box.x1 /\ box.x1 <= W /\ 0 <= box.x2 /\ box.x2 <= W
                  /\ 0 <= box.y1 /\ box.y1 <= H /\ 0 <= box.y2 /\ box.y2 <= H
                  /\ box.x1 = Near(rows[i].x1, W) /\ box.x2 = Near(rows[i].x2, W)
                  /\ box.y1 = Near(rows[i].y1, H) /\ box.y2 = Near(rows[i].y2, H)

\* the statement of C18 as the specification gives it: the tag is above the
\* box, or below the box when it would clip above
C18_TagAboveOrBelow ==
    imOp = "draw" =>
        /\ BoxesClamped
        /\ \A i \in 1..Len(imTags) :
              /\ imTags[i].y1 >= 0
              /\ \/ imTags[i].y2 <= imOut.drawn[i].y1
                 \/ imTags[i].y1 >= imOut.drawn[i].y2

\* C18: every box is clamped to [0, width] x [0, height]; the label tag, of
\* height text_height + 4, sits above the box with its lower edge
\* text_height + 4 above the box's top, or, when it would clip off the top
\* edge there, at the top edge of the image (where it can cover the top of
\* the box); it is never below the box and its top edge is never above
\* y = 0.
C18_ClampedBoxAndTag ==
    imOp = "draw" =>
        /\ BoxesClamped
        /\ Len(imTags) = Len(imOut.drawn)
        /\ \A i \in 1..Len(imTags) :
              LET tag == imTags[i]
                  box == imOut.drawn[i]
                  tall == (imText.height + 4) * Unit
              IN  /\ tag.y1 >= 0
                  /\ tag.y2 - tag.y1 = tall
                  /\ tag.x1 = box.x1
                  /\ tag.y1 <= box.y1
                  /\ IF box.y1 - 2 * tall >= 0
                     THEN tag.y2 = box.y1 - tall
                     ELSE tag.y1 = 0

C18_Witness ==
    /\ imOp = "draw"
    /\ Len(imTags) = 2
    /\ imOut.drawn[1].y1 = 0
    /\ imTags[1].y1 = 0 /\ imTags[1].y2 > imOut.drawn[1].y1
    /\ imTags[2].y1 > 0 /\ imTags[2].y2 < imOut.drawn[2].y1

\* 100 times the difference, in units, between the reported value `doc`
\* (hundredths of a point) multiplied back by the scale factor 2.0 and the
\* pixel value v (in units)
BackError(doc, v) ==
    Unit * (2 * doc - 100 * (v \div Unit)) - 100 * (v % Unit)

\* C14: the reported bbox (x, y, width, height) is (x1/2, y1/2, (x2-x1)/2,
\* (y2-y1)/2) rounded to 2 decimals; multiplied back by 2.0 it reproduces
\* x1, y1 and the differences x2-x1 and y2-y1 (as the code computes them, in
\* float32) each within 0.01.
C14_DocumentRoundTrip ==
    fnOp = "document" =>
        /\ Len(fnDoc) = Len(Dets(fnA))
        /\ \A i \in 1..Len(fnDoc) :
              LET row  == Dets(fnA)[i]
                  bbox == fnDoc[i].bbox
              IN  /\ Abs(BackError(bbox.x, row.x1)) <= Unit
                  /\ Abs(BackError(bbox.y, row.y1)) <= Unit
                  /\ Abs(BackError(bbox.width, RoundF32(row.x2 - row.x1))) <= Unit
                  /\ Abs(BackError(bbox.height, RoundF32(row.y2 - row.y1))) <= Unit

C14_Witness ==
    /\ fnOp = "document"
    /\ Dets(fnA) = <<quarterA, quarterB>>
    /\ Abs(BackError(fnDoc[1].bbox.x, quarterA.x1)) = Unit
    /\ BackError(fnDoc[1].bbox.height, RoundF32(quarterA.y2 - quarterA.y1)) # 0
    /\ Abs(BackError(fnDoc[2].bbox.x, quarterB.x1)) < Unit
    /\ fnDoc[2].bbox.y = 0

RECURSIVE SumOver(_, _)
SumOver(f, S) ==
    IF S = {} THEN 0
    ELSE LET x == CHOOSE y \in S : TRUE
         IN  f[x] + SumOver(f, S \ {x})

\* the sum of all counts of a tally
TallySum(tally) == SumOver(tally, DOMAIN tally)

\* C19: in the report of a successful process_pdf, total_detections is the
\* sum of the pages' 'detections', the number of annotation objects of all
\* pages and the sum of the counts of detections_per_class; each page's
\* 'classes' counts sum to its 'detections'; each label's document count is
\* the sum of its per-page counts.
C19_TallyConsistency ==
    Succeeded =>
        LET stats  == TheReport.page_stats
            pages  == 1..Len(stats)
            labels == UNION {DOMAIN stats[i].classes : i \in pages}
        IN  /\ TheReport.total_detections
                  = SumOver([i \in pages |-> stats[i].detections], pages)
            /\ TheReport.total_detections
                  = SumOver([i \in pages |->
                       Len(TheReport.annotations["page_" \o ToString(i)].annotations)],
                            pages)
            /\ TheReport.total_detections = TallySum(TheReport.detections_per_class)
            /\ \A i \in pages : TallySum(stats[i].classes) = stats[i].detections
            /\ DOMAIN TheReport.detections_per_class = labels
            /\ \A l \in labels :
                  TheReport.detections_per_class[l]
                     = SumOver([i \in pages |-> Count(stats[i].classes, l)], pages)

C19_Witness ==
    /\ Succeeded
    /\ total_pages = 2
    /\ TheReport.total_detections = 5
    /\ TheReport.page_stats[1].detections = 3
    /\ TheReport.page_stats[1].classes["signature"] = 2
    /\ TheReport.detections_per_class["qr_code"] = 2

\* the positions of a page in two-pass mode and what they have done so far
C16_PageOrder ==
    LET two   == opts.use_denoise \/ opts.use_threshold
        fresh == page_to_pil(page_number, PageRect)
        W     == fresh.width
        H     == fresh.height
    IN  /\ \A i \in 1..Len(predictLog) : predictLog[i].image.drawn = <<>>
        /\ (two /\ Len(predictLog) >= 1) =>
              /\ predictLog[1].pass = 1
              /\ predictLog[1].image = fresh
        /\ pc = "pass1" =>
              /\ predictLog = <<>>
              /\ original_image = fresh
              /\ processed_image = NoImage
        /\ pc = "preprocess2" =>
              /\ Len(predictLog) = 1
              /\ processed_image = NoImage
        /\ pc = "pass2" =>
              /\ Len(predictLog) = 1
              /\ original_image = fresh
              /\ [processed_image EXCEPT !.pixels = <<>>] = original_image
        /\ (two /\ Len(predictLog) = 2) =>
              LET crop == predictLog[2].image
              IN  /\ predictLog[2].pass = 2
                  /\ crop.page = page_number
                  /\ crop.pixels = processed_image.pixels
                  /\ crop.width = W \div 10 /\ crop.height = H \div 10
                  /\ crop.origin = <<W - W \div 10, H - H \div 10>>
        /\ pc = "merge" =>
              /\ Len(predictLog) = 2
              /\ \A i \in 1..Len(Dets(results_pass2)) :
                    Dets(results_pass2)[i].cls = QR_CLASS
        /\ (two /\ pc = "annotate") =>
              /\ Len(predictLog) = 2
              /\ ~predictLog[1].raised /\ ~predictLog[2].raised
              /\ original_image = fresh
              /\ Dets(results) = predictLog[1].out \o Dets(results_pass2)

\* a page is drawn and appended only by the step that follows the page's
\* last prediction, from the original image
C16_DrawAfterPredict ==
    [][(output_doc' # output_doc /\ pc' # "post") =>
          /\ pc = "annotate"
          /\ Len(predictLog) = (IF opts.use_denoise \/ opts.use_threshold
                                THEN 2 ELSE 1)
          /\ output_doc' = Append(output_doc, Last(output_doc'))
          /\ Last(output_doc').image.page = original_image.page
          /\ Last(output_doc').image.pixels = <<>>
          /\ Len(Last(output_doc').image.drawn) = Len(Dets(results))]_vars

\* C16: in two-pass mode pass 1 runs on the original rasterized image before
\* any preprocessing and before anything is drawn on it; preprocessing is
\* applied to the original image; the corner is cropped from the
\* preprocessed image and pass 2 runs on that crop only; then filter,
\* translate and merge; the original image is drawn on only after both
\* predictions of the page have returned, so no predictor input holds drawn
\* annotations.
C16_TwoPassOrder == []C16_PageOrder /\ C16_DrawAfterPredict

C16_Witness ==
    /\ pc = "annotate"
    /\ opts.use_denoise /\ ~opts.use_clahe /\ ~opts.use_threshold
    /\ page_number = 1
    /\ Len(output_doc) = 1
    /\ Len(output_doc[1].image.drawn) = 3
    /\ Len(predictLog) = 2
    /\ predictLog[1].image.pixels = <<>>
    /\ predictLog[2].image.pixels = <<DENOISE, SHARPEN>>
    /\ predictLog[2].image.origin = <<1071, 1516>>

=============================================================================
